---- MODULE Spec2Model ----
(***************************************************************************)
(* FLBW Daten Transformation: transform_data of src/streamlit_app.py,     *)
(* statement by statement, and its helpers extract_number, find_keyword   *)
(* and status_logik; and load_data and the heat map of                     *)
(* src/pages/dashboard2.py, which melt a table transform_data returned.    *)
(*                                                                         *)
(* A text cell is a sequence of one-character strings, so that prefix,    *)
(* substring, trimming, upper-casing and digit-run extraction are computed *)
(* character by character as Python computes them.  A blank cell is NaN.   *)
(* Cells of the sheet are texts or blank; amounts are integers.            *)
(***************************************************************************)
EXTENDS Integers, Sequences, FiniteSets, TLC

(***************************************************************************)
(* Cell values                                                             *)
(***************************************************************************)
\* a blank Excel cell as pandas reads it (float NaN); no text cell equals it
NaN == <<"NaN">>
\* a date that pd.to_datetime(errors="coerce") could not parse, and its month
NaT == <<>>

isna(v) == v = NaN
notna(v) == v # NaN

\* Python str(): a text stays as it is, NaN becomes the text "nan"
str(v) == IF isna(v) THEN <<"n", "a", "n">> ELSE v

Digits == {"0", "1", "2", "3", "4", "5", "6", "7", "8", "9"}
Whitespace == {" ", "\t"}

Min(S) == CHOOSE x \in S : \A y \in S : x <= y
Max(S) == CHOOSE x \in S : \A y \in S : x >= y

\* str.strip(): drops leading and trailing whitespace
strip(s) ==
  LET keep == {i \in 1..Len(s) : s[i] \notin Whitespace}
  IN  IF keep = {} THEN <<>> ELSE SubSeq(s, Min(keep), Max(keep))

LowerCase ==
  <<"a", "b", "c", "d", "e", "f", "g", "h", "i", "j",
    "k", "l", "m", "n", "o", "p", "q", "r", "s", "t",
    "u", "v", "w", "x", "y", "z", "ä", "ö", "ü">>
UpperCase ==
  <<"A", "B", "C", "D", "E", "F", "G", "H", "I", "J",
    "K", "L", "M", "N", "O", "P", "Q", "R", "S", "T",
    "U", "V", "W", "X", "Y", "Z", "Ä", "Ö", "Ü">>

\* str.upper() of one character; "ß" has no single upper-case character
upper_char(c) ==
  IF \E i \in 1..Len(LowerCase) : LowerCase[i] = c
  THEN <<UpperCase[CHOOSE i \in 1..Len(LowerCase) : LowerCase[i] = c]>>
  ELSE IF c = "ß" THEN <<"S", "S">> ELSE <<c>>

RECURSIVE upper(_)
upper(s) == IF s = <<>> THEN <<>> ELSE upper_char(Head(s)) \o upper(Tail(s))

\* str.startswith(prefix)
startswith(s, prefix) ==
  Len(s) >= Len(prefix) /\ SubSeq(s, 1, Len(prefix)) = prefix

\* the Python test `sub in s` on two texts
contains(s, sub) ==
  \E k \in 0..(Len(s) - Len(sub)) : SubSeq(s, k + 1, k + Len(sub)) = sub

(***************************************************************************)
(* Literals of transform_data                                              *)
(***************************************************************************)
Unbekannt == <<"U", "n", "b", "e", "k", "a", "n", "n", "t">>
UnbekannteKontierungsnummer ==
  <<"U", "n", "b", "e", "k", "a", "n", "n", "t", "e",
    " ", "K", "o", "n", "t", "i", "e", "r", "u", "n",
    "g", "s", "n", "u", "m", "m", "e", "r">>
XXX == <<"X", "X", "X">>
ICT == <<"I", "C", "T">>
FLBW == <<"F", "L", "B", "W">>
PSP == <<"P", "S", "P">>
Anwesenheit == <<"A", "n", "w", "e", "s", "e", "n", "h", "e", "i", "t">>
Arbeitsleistung ==
  <<"A", "r", "b", "e", "i", "t", "s", "l", "e", "i",
    "s", "t", "u", "n", "g">>
Abwesenheit == <<"A", "b", "w", "e", "s", "e", "n", "h", "e", "i", "t">>
Anderes == <<"A", "n", "d", "e", "r", "e", "s">>
ArbeitUnproduktiv ==
  <<"A", "r", "b", "e", "i", "t", " ", "U", "n", "p",
    "r", "o", "d", "u", "k", "t", "i", "v">>
Arbeit == <<"A", "r", "b", "e", "i", "t">>
Abwesend == <<"A", "b", "w", "e", "s", "e", "n", "d">>
PP_UHR_ICT == <<"P", "P", "-", "U", "H", "R", " ", "I", "C", "T">>

(***************************************************************************)
(* Lookup tables                                                           *)
(***************************************************************************)
ict_order_numbers ==
  {
    <<"1", "7", "0", "2", "3", "2", "8", "6", "2">>,
    <<"1", "7", "0", "2", "3", "2", "8", "6", "3">>,
    <<"1", "7", "0", "2", "3", "2", "8", "6", "4">>,
    <<"1", "7", "0", "2", "3", "2", "8", "6", "5">>,
    <<"1", "7", "0", "2", "3", "2", "8", "6", "6">>,
    <<"1", "7", "0", "2", "3", "2", "8", "6", "7">>,
    <<"1", "7", "0", "2", "3", "2", "8", "6", "9">>,
    <<"1", "7", "0", "2", "3", "3", "5", "8", "4">>,
    <<"1", "7", "0", "3", "2", "2", "1", "2", "7">>,
    <<"1", "7", "0", "4", "2", "3", "8", "2", "3">>,
    <<"1", "7", "0", "4", "2", "3", "8", "2", "4">>,
    <<"1", "7", "0", "4", "2", "3", "8", "2", "5">>,
    <<"1", "7", "0", "4", "2", "3", "8", "2", "6">>,
    <<"1", "7", "0", "4", "2", "3", "8", "2", "7">>,
    <<"1", "7", "0", "4", "2", "3", "8", "2", "8">>,
    <<"1", "7", "0", "4", "2", "3", "8", "2", "9">>,
    <<"1", "7", "0", "4", "2", "4", "3", "8", "0">>,
    <<"1", "7", "0", "4", "2", "4", "4", "6", "5">>,
    <<"1", "7", "0", "4", "2", "4", "6", "6", "3">>
  }

flbw_order_numbers ==
  {
    <<"1", "5", "2", "3", "1", "8", "8", "7", "0">>,
    <<"1", "5", "2", "3", "1", "9", "4", "5", "7">>,
    <<"1", "7", "0", "2", "2", "3", "8", "7", "2">>,
    <<"1", "7", "0", "3", "1", "9", "8", "2", "4">>,
    <<"1", "7", "0", "3", "1", "9", "9", "8", "6">>,
    <<"1", "7", "0", "3", "2", "0", "3", "7", "3">>,
    <<"1", "7", "0", "3", "2", "0", "3", "8", "0">>,
    <<"1", "7", "0", "3", "2", "0", "3", "8", "1">>,
    <<"1", "7", "0", "3", "2", "0", "3", "8", "2">>,
    <<"1", "7", "0", "3", "2", "0", "7", "8", "3">>,
    <<"1", "7", "0", "4", "2", "4", "3", "3", "0">>
  }

abwesenheitsarten ==
  {
    <<<<"0", "1", "0", "0">>, "Ferien", 1>>,
    <<<<"0", "1", "1", "0">>, "Treueprämie (Zeit)", 1>>,
    <<<<"0", "1", "2", "0">>, "Flexa-Urlaub", 1>>,
    <<<<"0", "1", "3", "0">>, "Vorruhestandurlaub", 1>>,
    <<<<"0", "2", "0", "0">>, "Krankheit", 1>>,
    <<<<"0", "2", "0", "1">>, "Krank teilarbeitsfähig", 1>>,
    <<<<"0", "2", "1", "0">>, "Krankheit (Militär)", 1>>,
    <<<<"0", "2", "1", "1">>, "K (Mil) teilarbeitsfähig", 1>>,
    <<<<"0", "2", "2", "0">>, "Quarantäne", 1>>,
    <<<<"0", "2", "2", "2">>, "COVID Kinderbetreuung", 1>>,
    <<<<"0", "2", "2", "5">>, "COVID Risikogruppe", 1>>,
    <<<<"0", "3", "0", "0">>, "Militär/Zivilschutz", 1>>,
    <<<<"0", "4", "0", "0">>, "Unfall (NBU)", 1>>,
    <<<<"0", "4", "0", "1">>, "NBU teilarbeitsfähig", 1>>,
    <<<<"0", "4", "0", "5">>, "Unfall (BU)", 1>>,
    <<<<"0", "4", "0", "6">>, "BU teilarbeitsfähig", 1>>,
    <<<<"0", "4", "1", "0">>, "Unfall (Militär)", 1>>,
    <<<<"0", "4", "1", "1">>, "Unfall (Mil) teilarbeit", 1>>,
    <<<<"0", "8", "0", "0">>, "Kompensation Pikett", 1>>,
    <<<<"0", "9", "0", "0">>, "Kompensation Überzeit", 1>>,
    <<<<"0", "9", "1", "0">>, "Komp. Überzeit 2", 1>>,
    <<<<"0", "9", "1", "5">>, "Komp. Überstunden (ÜS)", 1>>,
    <<<<"0", "9", "1", "7">>, "Komp. Ausdeh. Höchst-AZ", 1>>,
    <<<<"0", "9", "2", "0">>, "Komp. Nachtdienst 3", 1>>,
    <<<<"0", "9", "2", "5">>, "Komp. Gleitzeit", 1>>,
    <<<<"0", "9", "4", "0">>, "Überzeit", 1>>,
    <<<<"0", "9", "5", "0">>, "Seminar/Kurs", 1>>,
    <<<<"0", "9", "6", "0">>, "Reisezeitgutschrift", 1>>,
    <<<<"0", "9", "7", "0">>, "Freistellung PeKo", 1>>,
    <<<<"1", "0", "0", "0">>, "ab.freier Tag (VJ)", 1>>,
    <<<<"1", "0", "1", "0">>, "Ausgleichstag", 1>>,
    <<<<"1", "0", "2", "0">>, "Ruhetag", 1>>,
    <<<<"1", "0", "3", "0">>, "Komp. CTS", 1>>,
    <<<<"1", "0", "4", "0">>, "Teilzeittag \"80/20\"", 1>>,
    <<<<"1", "0", "5", "0">>, "Teilzeittag", 1>>,
    <<<<"1", "0", "6", "0">>, "Teilzeittag", 1>>,
    <<<<"1", "1", "0", "0">>, "Auszeit 25", 1>>,
    <<<<"1", "1", "1", "0">>, "Auszeit 40", 1>>,
    <<<<"1", "1", "2", "0">>, "Auszeit in Tagen", 1>>,
    <<<<"1", "1", "2", "5">>, "Auszeit pro rata", 1>>,
    <<<<"1", "1", "4", "0">>, "Ind. bez. Urlaub IBU", 1>>,
    <<<<"1", "1", "5", "0">>, "Selbstlernzeit", 1>>,
    <<<<"8", "7", "1", "0">>, "Weiterbildungsurlaub", 1>>,
    <<<<"8", "7", "1", "2">>, "ausserschul.Jugendarbeit", 1>>,
    <<<<"8", "7", "1", "3">>, "Arbeitsenthebung", 1>>,
    <<<<"8", "7", "1", "4">>, "Freisetzung", 1>>,
    <<<<"8", "7", "1", "5">>, "Mutterschutz", 1>>,
    <<<<"8", "7", "1", "6">>, "Adoptionsurlaub", 1>>,
    <<<<"8", "7", "1", "7">>, "Urlaub Berufsbildung", 1>>,
    <<<<"8", "7", "1", "8">>, "Frei nach Personenunfall", 1>>,
    <<<<"8", "7", "1", "9">>, "Untersuch SUVA", 1>>,
    <<<<"8", "7", "2", "0">>, "Unbezahlter Urlaub", 1>>,
    <<<<"8", "7", "2", "1">>, "Freistellung", 1>>,
    <<<<"8", "7", "5", "A">>, "Hochzeit", 1>>,
    <<<<"8", "7", "5", "B">>, "Vaterschaftsurlaub", 1>>,
    <<<<"8", "7", "5", "C">>, "Tod Ehegatte,Eltern,Kind", 1>>,
    <<<<"8", "7", "5", "D">>, "Tod SchEltern,Geschwister", 1>>,
    <<<<"8", "7", "5", "E">>, "Tod GrEltern/UrGrEltern", 1>>,
    <<<<"8", "7", "5", "F">>, "Familiäre Gründe", 1>>,
    <<<<"8", "7", "5", "G">>, "Pflege der Kinder", 1>>,
    <<<<"8", "7", "5", "H">>, "Stellenbewerbungen", 1>>,
    <<<<"8", "7", "5", "I">>, "Wohnungswechsel", 1>>,
    <<<<"8", "7", "5", "J">>, "Vorsprache b. Behörden", 1>>,
    <<<<"8", "7", "5", "K">>, "Ausübung öffentl. Ämter", 1>>,
    <<<<"8", "7", "5", "L">>, "Arbeitsjubiläum", 1>>,
    <<<<"8", "7", "5", "M">>, "Entlassung Wehrpflicht", 1>>,
    <<<<"8", "7", "5", "N">>, "Vaterschaftsurlaub", 1>>,
    <<<<"8", "7", "5", "O">>, "Orientierungstag Militär", 1>>,
    <<<<"8", "7", "6", "A">>, "Feuerwehr/Einsatz b.Alarm", 1>>,
    <<<<"8", "7", "6", "B">>, "Feuerwehr/Kurs", 1>>,
    <<<<"8", "7", "6", "C">>, "Aktiver Spitzensport", 1>>,
    <<<<"8", "7", "6", "D">>, "Ltg. Behindertensport", 1>>,
    <<<<"8", "7", "6", "E">>, "Wohnungssuche", 1>>,
    <<<<"8", "7", "6", "F">>, "1.Mai Veranstaltungen", 0>>,
    <<<<"8", "7", "6", "G">>, "Bild.Veranstalt.Gewerksch", 0>>,
    <<<<"8", "7", "6", "H">>, "Freiwilliger Zivilschutz", 0>>,
    <<<<"8", "7", "6", "I">>, "Jugend u.Sport", 0>>,
    <<<<"8", "7", "7", "A">>, "Urlaubsscheck 1/1", 0>>,
    <<<<"8", "7", "7", "B">>, "Urlaubsscheck 1/2", 0>>,
    <<<<"8", "7", "8", "A">>, "Mutterschaftsurlaub", 0>>,
    <<<<"8", "7", "9", "A">>, "Erziehungsurlaub", 0>>,
    <<<<"8", "7", "9", "B">>, "Gesetzl. Betr.Urlaub Kind", 0>>,
    <<<<"9", "0", "0", "1">>, "Leistung (SPX)", 0>>,
    <<<<"9", "0", "7", "0">>, "Piketteinsatz (SPX)", 0>>,
    <<<<"9", "1", "0", "0">>, "Pause bez. (30%) (SPX)", 0>>,
    <<<<"9", "1", "5", "0">>, "Pause unbezahlt (SPX)", 0>>,
    <<<<"9", "2", "7", "0">>, "Arbeitsunterbrech. (SPX)", 0>>,
    <<<<"9", "U", "0", "0">>, "Unterbruch ARF (Ums)", 0>>,
    <<<<"9", "U", "0", "1">>, "Unterbruch FLU (Ums)", 0>>,
    <<<<"I", "-", "1", "2">>, "Führung/Coaching", 0>>,
    <<<<"I", "-", "1", "4">>, "f.-int. Team-/Fachs./KT", 0>>,
    <<<<"I", "-", "1", "5">>, "f.-üb. Team-/Fachs./KT", 0>>,
    <<<<"I", "-", "1", "6">>, "Offerten für Dritte", 0>>,
    <<<<"I", "-", "1", "7">>, "IT-Störungen/Unterbrüche", 0>>,
    <<<<"I", "-", "1", "8">>, "PEKO", 0>>,
    <<<<"I", "-", "1", "9">>, "Uebriges", 0>>
  }

arbeitszeit_leistungsarten ==
  {
    <<"L", "A", "1", "0", "0", "2">>,
    <<"L", "A", "1", "4", "0", "2">>,
    <<"L", "A", "1", "6", "1", "1">>,
    <<"L", "A", "1", "6", "1", "5">>,
    <<"L", "A", "1", "6", "1", "7">>,
    <<"L", "A", "1", "6", "1", "9">>,
    <<"L", "A", "1", "6", "2", "0">>,
    <<"L", "A", "1", "8", "2", "4">>,
    <<"L", "A", "1", "8", "2", "5">>
  }

\* the list with a keyword that is a prefix of "ABW" added at its end
possible_keywords_with_AB ==
  <<
    <<"A", "B", "W">>, <<"Ä", "A", "U", "F">>, <<"E", "I", "N", "K">>,
    <<"I", "N", "N", "O">>, <<"I", "H", "E">>, <<"M", "F", "K">>,
    <<"M", "D", "B", "I">>, <<"M", "O", "N">>, <<"N", "O", "R", "M">>,
    <<"O", "B", "S">>, <<"R", "C", "M">>, <<"R", "E", "S", "T">>,
    <<"S", "I", "C", "H">>, <<"S", "T", "A", "D", "A">>, <<"S", "T", "U", "D">>,
    <<"S", "U", "E">>, <<"S", "Y", "M">>, <<"P", "S", "U", "P">>,
    <<"P", "R", "O", "D">>, <<"I", "N", "D">>, <<"M", "D", "G">>,
    <<"A", "N", "A">>, <<"I", "N", "S", "T">>, <<"A", "D", "M">>,
    <<"K", "U", "R", "E">>, <<"C", "L", "R">>, <<"C", "A", "D">>,
    <<"I", "H", "S">>, <<"A", "B">>
  >>

possible_keywords ==
  <<
    <<"A", "B", "W">>, <<"Ä", "A", "U", "F">>, <<"E", "I", "N", "K">>,
    <<"I", "N", "N", "O">>, <<"I", "H", "E">>, <<"M", "F", "K">>,
    <<"M", "D", "B", "I">>, <<"M", "O", "N">>, <<"N", "O", "R", "M">>,
    <<"O", "B", "S">>, <<"R", "C", "M">>, <<"R", "E", "S", "T">>,
    <<"S", "I", "C", "H">>, <<"S", "T", "A", "D", "A">>, <<"S", "T", "U", "D">>,
    <<"S", "U", "E">>, <<"S", "Y", "M">>, <<"P", "S", "U", "P">>,
    <<"P", "R", "O", "D">>, <<"I", "N", "D">>, <<"M", "D", "G">>,
    <<"A", "N", "A">>, <<"I", "N", "S", "T">>, <<"A", "D", "M">>,
    <<"K", "U", "R", "E">>, <<"C", "L", "R">>, <<"C", "A", "D">>,
    <<"I", "H", "S">>
  >>

\* codes with anwesend_flag = 1
arbeitszeit_codes == {e[1] : e \in {x \in abwesenheitsarten : x[3] = 1}}

\* codes with anwesend_flag = 0
abwesenheits_codes == {e[1] : e \in {x \in abwesenheitsarten : x[3] = 0}}

(***************************************************************************)
(* Kategorisierung der Einträge                                            *)
(***************************************************************************)
\* Kategorie with the last branch lost: the row keeps the initial value ""
Kategorie_without_else(row) ==
  IF \/ startswith(str(row["Kontierungsbeschreibung"]), PP_UHR_ICT)
     \/ str(row["Kontierungsnummer"]) \in ict_order_numbers
  THEN ICT
  ELSE IF \/ contains(str(row["Kontierungsbeschreibung"]), FLBW)
          \/ str(row["Kontierungsnummer"]) \in flbw_order_numbers
  THEN FLBW
  ELSE IF contains(str(row["Kontierungstyp"]), PSP)
  THEN PSP
  ELSE IF /\ notna(row["Lohnart-Langtext"])
          /\ strip(str(row["Lohnart-Langtext"])) # <<>>
  THEN Anwesenheit
  ELSE IF /\ str(row["Leistungsart"]) \in arbeitszeit_leistungsarten
          /\ str(row["Text AnAbArt"]) \in arbeitszeit_codes
  THEN Arbeitsleistung
  ELSE IF /\ str(row["Leistungsart"]) \in arbeitszeit_leistungsarten
          /\ str(row["Text AnAbArt"]) \in abwesenheits_codes
  THEN Abwesenheit
  ELSE <<>>

\* Kategorie with the pd.notna test lost: a blank Lohnart-Langtext is "nan"
Kategorie_without_notna(row) ==
  IF \/ startswith(str(row["Kontierungsbeschreibung"]), PP_UHR_ICT)
     \/ str(row["Kontierungsnummer"]) \in ict_order_numbers
  THEN ICT
  ELSE IF \/ contains(str(row["Kontierungsbeschreibung"]), FLBW)
          \/ str(row["Kontierungsnummer"]) \in flbw_order_numbers
  THEN FLBW
  ELSE IF contains(str(row["Kontierungstyp"]), PSP)
  THEN PSP
  ELSE IF strip(str(row["Lohnart-Langtext"])) # <<>>
  THEN Anwesenheit
  ELSE IF /\ str(row["Leistungsart"]) \in arbeitszeit_leistungsarten
          /\ str(row["Text AnAbArt"]) \in arbeitszeit_codes
  THEN Arbeitsleistung
  ELSE IF /\ str(row["Leistungsart"]) \in arbeitszeit_leistungsarten
          /\ str(row["Text AnAbArt"]) \in abwesenheits_codes
  THEN Abwesenheit
  ELSE Anderes

\* the lambda of df["Kategorie"]: nested conditionals, the first that holds wins
Kategorie(row) ==
  IF \/ startswith(str(row["Kontierungsbeschreibung"]), PP_UHR_ICT)
     \/ str(row["Kontierungsnummer"]) \in ict_order_numbers
  THEN ICT
  ELSE IF \/ contains(str(row["Kontierungsbeschreibung"]), FLBW)
          \/ str(row["Kontierungsnummer"]) \in flbw_order_numbers
  THEN FLBW
  ELSE IF contains(str(row["Kontierungstyp"]), PSP)
  THEN PSP
  ELSE IF /\ notna(row["Lohnart-Langtext"])
          /\ strip(str(row["Lohnart-Langtext"])) # <<>>
  THEN Anwesenheit
  ELSE IF /\ str(row["Leistungsart"]) \in arbeitszeit_leistungsarten
          /\ str(row["Text AnAbArt"]) \in arbeitszeit_codes
  THEN Arbeitsleistung
  ELSE IF /\ str(row["Leistungsart"]) \in arbeitszeit_leistungsarten
          /\ str(row["Text AnAbArt"]) \in abwesenheits_codes
  THEN Abwesenheit
  ELSE Anderes

(***************************************************************************)
(* Hilfsfunktionen für die Unterkategorie-Ableitung                        *)
(***************************************************************************)
\* re.findall(r"\d+", s): the maximal digit runs of s, in order of appearance
RECURSIVE findall_digits(_)
findall_digits(s) ==
  LET starts == {i \in 1..Len(s) : s[i] \in Digits}
  IN  IF starts = {} THEN <<>>
      ELSE LET a == Min(starts)
               after == {j \in a..Len(s) : s[j] \notin Digits}
               b == IF after = {} THEN Len(s) ELSE Min(after) - 1
           IN  <<SubSeq(s, a, b)>> \o findall_digits(SubSeq(s, b + 1, Len(s)))

\* the loop of extract_number with m[:num_digits] in place of m[-num_digits:]
RECURSIVE extract_loop_leading(_, _, _)
extract_loop_leading(matches, k, num_digits) ==
  IF k > Len(matches) THEN UnbekannteKontierungsnummer
  ELSE LET m == matches[k]
       IN  IF Len(m) = num_digits THEN m
           ELSE IF Len(m) > num_digits
                THEN SubSeq(m, 1, num_digits)
                ELSE extract_loop_leading(matches, k + 1, num_digits)

\* the for loop of extract_number over matches, from position k on
RECURSIVE extract_loop(_, _, _)
extract_loop(matches, k, num_digits) ==
  IF k > Len(matches) THEN UnbekannteKontierungsnummer
  ELSE LET m == matches[k]
       IN  IF Len(m) = num_digits THEN m
           ELSE IF Len(m) > num_digits
                THEN SubSeq(m, Len(m) - num_digits + 1, Len(m))
                ELSE extract_loop(matches, k + 1, num_digits)

extract_number(text, num_digits) ==
  extract_loop(findall_digits(str(text)), 1, num_digits)

\* the loop of find_keyword with `keyword in text_upper` in place of startswith
RECURSIVE keyword_loop_contains(_, _)
keyword_loop_contains(text_upper, k) ==
  IF k > Len(possible_keywords) THEN XXX
  ELSE IF contains(text_upper, possible_keywords[k])
       THEN possible_keywords[k]
       ELSE keyword_loop_contains(text_upper, k + 1)

\* the for loop of find_keyword over possible_keywords, from position k on
RECURSIVE keyword_loop(_, _)
keyword_loop(text_upper, k) ==
  IF k > Len(possible_keywords) THEN XXX
  ELSE IF startswith(text_upper, possible_keywords[k])
       THEN possible_keywords[k]
       ELSE keyword_loop(text_upper, k + 1)

find_keyword(text) == keyword_loop(strip(upper(str(text))), 1)

\* the default num_digits of extract_number, and the one passed for ICT
PspDigits == 7
IctDigits == 8

\* the lambda of df["Unterkategorie"]
Unterkategorie(row) ==
  IF row["Kategorie"] = ICT
  THEN extract_number(row["Kontierungsnummer"], IctDigits)
  ELSE IF row["Kategorie"] = FLBW
  THEN find_keyword(row["Leistung Kurztext"])
  ELSE IF row["Kategorie"] = PSP
  THEN extract_number(row["Kontierungsnummer"], PspDigits)
  ELSE IF row["Kategorie"] \in {Arbeitsleistung, Abwesenheit, Anwesenheit}
  THEN str(row["Kontierungsbeschreibung"])
  ELSE <<>>

\* str + " " + value raises TypeError when value is the float NaN
NameRaises(row) == row["Kategorie"] = PSP /\ isna(row["Projektdefinition"])

\* the lambda of df["Unterkategorie Name"], where it does not raise
UnterkategorieName(row) ==
  IF row["Kategorie"] = PSP
  THEN row["Unterkategorie"] \o <<" ">> \o row["Projektdefinition"]
  ELSE row["Unterkategorie"]

\* re.fullmatch(r"2\d{3}", s)
\* the pattern \d{4}: any four digits
fullmatch_dddd(s) ==
  Len(s) = 4 /\ \A k \in 1..4 : s[k] \in Digits

fullmatch_2ddd(s) ==
  Len(s) = 4 /\ s[1] = "2" /\ \A k \in 2..4 : s[k] \in Digits

\* status_logik with re.match in place of re.fullmatch: a prefix is enough
status_logik_with_match(row) ==
  IF /\ notna(row["Lohnart-Langtext"])
     /\ strip(str(row["Lohnart-Langtext"])) # <<>>
  THEN ArbeitUnproduktiv
  ELSE LET s == strip(str(row["Text AnAbArt"]))
       IN  IF Len(s) >= 4 /\ fullmatch_2ddd(SubSeq(s, 1, 4)) THEN Arbeit ELSE Abwesend

status_logik(row) ==
  IF /\ notna(row["Lohnart-Langtext"])
     /\ strip(str(row["Lohnart-Langtext"])) # <<>>
  THEN ArbeitUnproduktiv
  ELSE IF fullmatch_2ddd(strip(str(row["Text AnAbArt"])))
  THEN Arbeit
  ELSE Abwesend

(***************************************************************************)
(* State                                                                   *)
(***************************************************************************)
VARIABLES
  sheet,       \* the rows of "Sheet1" of the uploaded file, as read by read_excel
  df,          \* the working frame of transform_data: a sequence of rows
  pivot_df,    \* the pivoted frame: its rows (one per index tuple)
  columns,     \* the column labels of pivot_df, in order
  pc,          \* the statement of transform_data that runs next
  text,        \* argument of a direct call of extract_number / find_keyword
  num_digits,  \* argument num_digits of a direct call of extract_number
  result,      \* value returned by that call
  df_melt,     \* pages/dashboard2.py: the long frame load_data returns
  heat_pivot   \* pages/dashboard2.py: the frame behind the heat map

vars == <<sheet, df, pivot_df, columns, pc, text, num_digits, result,
          df_melt, heat_pivot>>

call_vars == <<text, num_digits, result>>
dash_vars == <<df_melt, heat_pivot>>
frame_vars == <<sheet, df, pivot_df, columns>>

\* the columns of the SAP export and the names df.rename gives them
rename_columns ==
  { <<"OE", "Organisationseinheit">>,
    <<"Personalnummer", "U-Nummer">>,
    <<"Name des Mitarbeiters bzw. Bewerbers", "Name">>,
    <<"Datum", "Datum">>,
    <<"Kontierungstext", "Kontierungsbeschreibung">>,
    <<"Kontierung (Empf.)", "Kontierungstyp">>,
    <<"Allgemeiner Empfänger", "Kontierungsnummer">>,
    <<"Kurztext", "Leistung Kurztext">>,
    <<"Leistungsart", "Leistungsart">>,
    <<"EmpfKostenstelle", "EmpfKostenstelle">>,
    <<"Empfänger-PSP-Element", "Projektdefinition">>,
    <<"Lohnart-Langtext", "Lohnart-Langtext">>,
    <<"Anzahl (Maßeinheit)", "Betrag">>,
    <<"Text AnAbArt", "Text AnAbArt">> }

static_cols ==
  <<"Organisationseinheit", "U-Nummer", "Name", "Kontierungsbeschreibung",
    "Kontierungstyp", "Kontierungsnummer", "Leistung Kurztext", "Leistungsart",
    "EmpfKostenstelle", "Projektdefinition", "Lohnart-Langtext",
    "Text AnAbArt", "Kategorie", "Unterkategorie", "Unterkategorie Name">>

month_names ==
  <<"Januar", "Februar", "März", "April", "Mai", "Juni",
    "Juli", "August", "September", "Oktober", "November", "Dezember">>

Range(s) == {s[k] : k \in 1..Len(s)}

\* one row of the export; Datum is <<day, month>> of a "dd.mm.yyyy" text
\* (the year is not modelled) or <<>> for a blank cell, Anzahl is <<n>> for
\* a number or <<>> for a blank or non-numeric cell
SheetRow(oe, pnr, name, datum, ktext, ktyp, empf, kurz, la, kst, psp, lohn, anz, anab) ==
  ("OE" :> oe) @@ ("Personalnummer" :> pnr)
  @@ ("Name des Mitarbeiters bzw. Bewerbers" :> name) @@ ("Datum" :> datum)
  @@ ("Kontierungstext" :> ktext) @@ ("Kontierung (Empf.)" :> ktyp)
  @@ ("Allgemeiner Empfänger" :> empf) @@ ("Kurztext" :> kurz)
  @@ ("Leistungsart" :> la) @@ ("EmpfKostenstelle" :> kst)
  @@ ("Empfänger-PSP-Element" :> psp) @@ ("Lohnart-Langtext" :> lohn)
  @@ ("Anzahl (Maßeinheit)" :> anz) @@ ("Text AnAbArt" :> anab)

(***************************************************************************)
(* Steps of transform_data                                                 *)
(***************************************************************************)
\* df.rename(columns=..., inplace=True) on one row
rename(r) ==
  [c \in {p[2] : p \in rename_columns} |->
     r[(CHOOSE p \in rename_columns : p[2] = c)[1]]]

DaysInMonth == <<31, 28, 31, 30, 31, 30, 31, 31, 30, 31, 30, 31>>

\* pd.to_datetime(..., format="%d.%m.%Y", errors="coerce")
to_datetime(d) ==
  IF Len(d) = 2 /\ d[2] \in 1..12 /\ d[1] \in 1..DaysInMonth[d[2]]
  THEN d ELSE NaT

\* Series.dt.month
dt_month(d) == IF d = NaT THEN NaT ELSE <<d[2]>>

\* pd.to_numeric(..., errors="coerce").fillna(0)
to_numeric(v) == IF Len(v) = 1 THEN v[1] ELSE 0

\* read_excel and rename
ReadExcel ==
  /\ pc = "read_excel"
  /\ df' = [k \in 1..Len(sheet) |-> rename(sheet[k])]
  /\ pc' = "prepare"
  /\ UNCHANGED <<sheet, pivot_df, columns, call_vars, dash_vars>>

\* Datum, Monat, the three empty classification columns, numeric Betrag
PrepareRow(r) ==
  [c \in DOMAIN r \cup {"Monat", "Kategorie", "Unterkategorie", "Unterkategorie Name"} |->
     CASE c = "Datum" -> to_datetime(r["Datum"])
       [] c = "Monat" -> dt_month(to_datetime(r["Datum"]))
       [] c \in {"Kategorie", "Unterkategorie", "Unterkategorie Name"} -> <<>>
       [] c = "Betrag" -> to_numeric(r["Betrag"])
       [] OTHER -> r[c]]

Prepare ==
  /\ pc = "prepare"
  /\ df' = [k \in 1..Len(df) |-> PrepareRow(df[k])]
  /\ pc' = "kategorie"
  /\ UNCHANGED <<sheet, pivot_df, columns, call_vars, dash_vars>>

\* the status written over Text AnAbArt before the rows are classified
AssignKategorie_after_status ==
  /\ pc = "kategorie"
  /\ df' = [k \in 1..Len(df) |->
              LET row == [df[k] EXCEPT !["Text AnAbArt"] = status_logik(df[k])]
              IN  [row EXCEPT !["Kategorie"] = Kategorie(row)]]
  /\ pc' = "unterkategorie"
  /\ UNCHANGED <<sheet, pivot_df, columns, call_vars, dash_vars>>

AssignKategorie ==
  /\ pc = "kategorie"
  /\ df' = [k \in 1..Len(df) |-> [df[k] EXCEPT !["Kategorie"] = Kategorie(df[k])]]
  /\ pc' = "unterkategorie"
  /\ UNCHANGED <<sheet, pivot_df, columns, call_vars, dash_vars>>

AssignUnterkategorie ==
  /\ pc = "unterkategorie"
  /\ df' = [k \in 1..Len(df) |->
              [df[k] EXCEPT !["Unterkategorie"] = Unterkategorie(df[k])]]
  /\ pc' = "unterkategorie_name"
  /\ UNCHANGED <<sheet, pivot_df, columns, call_vars, dash_vars>>

\* df.apply raises as soon as the lambda raises on one row and the
\* exception leaves transform_data: no column is assigned, nothing is returned
AssignUnterkategorieName ==
  /\ pc = "unterkategorie_name"
  /\ IF \E k \in 1..Len(df) : NameRaises(df[k])
     THEN /\ pc' = "raised"
          /\ df' = df
     ELSE /\ pc' = "status"
          /\ df' = [k \in 1..Len(df) |->
                      [df[k] EXCEPT !["Unterkategorie Name"] = UnterkategorieName(df[k])]]
  /\ UNCHANGED <<sheet, pivot_df, columns, call_vars, dash_vars>>

\* Status direkt in die Spalte 'Text AnAbArt' schreiben
AssignStatus ==
  /\ pc = "status"
  /\ df' = [k \in 1..Len(df) |-> [df[k] EXCEPT !["Text AnAbArt"] = status_logik(df[k])]]
  /\ pc' = "fillna"
  /\ UNCHANGED <<sheet, pivot_df, columns, call_vars, dash_vars>>

\* Series.fillna(value)
fillna(v, value) == IF isna(v) THEN value ELSE v

\* FillRow with EmpfKostenstelle left out of the loop: only .fillna("") fills it
FillRow_kst_empty(r) ==
  LET filled == [c \in DOMAIN r |->
                   IF c \in Range(static_cols) \ {"EmpfKostenstelle"}
                   THEN fillna(r[c], Unbekannt) ELSE r[c]]
  IN  [filled EXCEPT !["EmpfKostenstelle"] = str(fillna(@, <<>>))]

\* the loop over static_cols, then EmpfKostenstelle .fillna("").astype(str)
FillRow(r) ==
  LET filled == [c \in DOMAIN r |->
                   IF c \in Range(static_cols) THEN fillna(r[c], Unbekannt) ELSE r[c]]
  IN  [filled EXCEPT !["EmpfKostenstelle"] = str(fillna(@, <<>>))]

Fillna ==
  /\ pc = "fillna"
  /\ df' = [k \in 1..Len(df) |-> FillRow(df[k])]
  /\ pc' = "pivot"
  /\ UNCHANGED <<sheet, pivot_df, columns, call_vars, dash_vars>>

\* the index tuple of a row: its values in the static columns
IndexOf(r) == [c \in Range(static_cols) |-> r[c]]

RECURSIVE SumBetrag(_, _)
SumBetrag(frame, rows) ==
  IF rows = {} THEN 0
  ELSE LET k == CHOOSE x \in rows : TRUE
       IN  frame[k]["Betrag"] + SumBetrag(frame, rows \ {k})

\* df.pivot_table(index=static_cols, columns="Monat", values="Betrag",
\* aggfunc="sum", fill_value=0).reset_index() and rename(columns=month_names):
\* groupby drops the rows whose Monat is missing; one row per remaining
\* index tuple, one column per remaining Monat; a cell without rows is
\* filled with 0.  The order of the rows is not modelled.
pivot_table(frame) ==
  LET kept == {k \in 1..Len(frame) : frame[k]["Monat"] # NaT}
      index == {IndexOf(frame[k]) : k \in kept}
      months == {frame[k]["Monat"][1] : k \in kept}
      labels == Range(static_cols) \cup {month_names[m] : m \in months}
      cell(ix, m) ==
        LET rows == {k \in kept : IndexOf(frame[k]) = ix /\ frame[k]["Monat"] = <<m>>}
        IN  IF rows = {} THEN 0 ELSE SumBetrag(frame, rows)
  IN  [ labels |-> labels,
        rows |-> { [c \in labels |->
                      IF c \in Range(static_cols) THEN ix[c]
                      ELSE cell(ix, CHOOSE m \in months : month_names[m] = c)]
                   : ix \in index } ]

\* the month labels in the reverse of the order of month_names
existing_months_reversed(labels) ==
  LET s == SelectSeq(month_names, LAMBDA m : m \in labels)
  IN  [i \in 1..Len(s) |-> s[Len(s) + 1 - i]]

\* the month labels among the given column labels, in the order of month_names
existing_months(labels) == SelectSeq(month_names, LAMBDA m : m \in labels)

\* pivot_table, then pivot_df[static_cols + sorted(existing_months, ...)]
PivotTable ==
  /\ pc = "pivot"
  /\ LET p == pivot_table(df)
     IN  /\ pivot_df' = p.rows
         /\ columns' = static_cols \o existing_months(p.labels)
  /\ pc' = "ytd"
  /\ UNCHANGED <<sheet, df, call_vars, dash_vars>>

\* the sum with only the first of the month columns taken
SumCols_first_only(row, cols) == IF cols = <<>> THEN 0 ELSE row[Head(cols)]

RECURSIVE SumCols(_, _)
SumCols(row, cols) ==
  IF cols = <<>> THEN 0 ELSE row[Head(cols)] + SumCols(row, Tail(cols))

\* pivot_df["ytd"] = pivot_df[existing_months].sum(axis=1); return pivot_df
Ytd ==
  /\ pc = "ytd"
  /\ pivot_df' = {row @@ ("ytd" :> SumCols(row, existing_months(Range(columns))))
                    : row \in pivot_df}
  /\ columns' = Append(columns, "ytd")
  /\ pc' = "done"
  /\ UNCHANGED <<sheet, df, call_vars, dash_vars>>

transform_data ==
  \/ ReadExcel
  \/ Prepare
  \/ AssignKategorie
  \/ AssignUnterkategorie
  \/ AssignUnterkategorieName
  \/ AssignStatus
  \/ Fillna
  \/ PivotTable
  \/ Ytd

(***************************************************************************)
(* Direct calls of the two helper functions                                *)
(***************************************************************************)
ExtractNumberCall ==
  /\ pc = "call_extract_number"
  /\ result' = extract_number(text, num_digits)
  /\ pc' = "extract_number_returned"
  /\ UNCHANGED <<frame_vars, dash_vars, text, num_digits>>

FindKeywordCall ==
  /\ pc = "call_find_keyword"
  /\ result' = find_keyword(text)
  /\ pc' = "find_keyword_returned"
  /\ UNCHANGED <<frame_vars, dash_vars, text, num_digits>>

(***************************************************************************)
(* pages/dashboard2.py: the page that reads a table transform_data         *)
(* returned (downloaded as a file) and melts it for its charts.  The page  *)
(* is modelled on the table as returned; the file in between is not.       *)
(***************************************************************************)
\* the labels in the order a categorical without categories gives them
months_lexical ==
  <<"April", "August", "Dezember", "Februar", "Januar", "Juli",
    "Juni", "Mai", "März", "November", "Oktober", "September">>

months ==
  <<"Januar", "Februar", "März", "April", "Mai", "Juni",
    "Juli", "August", "September", "Oktober", "November", "Dezember">>

\* [col for col in df.columns if col not in months + ['ytd']]
id_vars(cols) == SelectSeq(cols, LAMBDA c : c \notin Range(months) \cup {"ytd"})

\* df.melt raises KeyError when a label of value_vars is not a column
MeltRaises(cols) == \E m \in Range(months) : m \notin Range(cols)

\* df.melt(id_vars, value_vars=months, var_name='Monat', value_name='Wert'):
\* one long row per row of the table and label of value_vars
melt(table, cols) ==
  { [c \in Range(id_vars(cols)) \cup {"Monat", "Wert"} |->
        IF c = "Monat" THEN m
        ELSE IF c = "Wert" THEN row[m]
        ELSE row[c]]
    : row \in table, m \in Range(months) }

\* load_data: read the table, melt it, make Monat an ordered categorical
\* with the categories of months
LoadData ==
  /\ pc = "done"
  /\ IF MeltRaises(columns)
     THEN /\ pc' = "key_error"
          /\ UNCHANGED df_melt
     ELSE /\ df_melt' = [ rows |-> melt(pivot_df, columns),
                          categories |-> months,
                          ordered |-> TRUE ]
          /\ pc' = "loaded"
  /\ UNCHANGED <<frame_vars, call_vars, heat_pivot>>

RECURSIVE SumWert(_)
SumWert(rows) ==
  IF rows = {} THEN 0
  ELSE LET r == CHOOSE x \in rows : TRUE IN r["Wert"] + SumWert(rows \ {r})

\* the value of the cell (kat, m) of heat_pivot, with only one of the long
\* rows of the cell taken
heat_cell_any(rows, kat, m) ==
  LET cell == {r \in rows : r["Kategorie"] = kat /\ r["Monat"] = m}
  IN  IF cell = {} THEN 0 ELSE (CHOOSE r \in cell : TRUE)["Wert"]

\* groupby(['Kategorie','Monat'])['Wert'].sum(), pivot(index='Kategorie',
\* columns='Monat', values='Wert').fillna(0): the value of the cell (kat, m)
heat_cell(rows, kat, m) ==
  LET cell == {r \in rows : r["Kategorie"] = kat /\ r["Monat"] = m}
  IN  IF cell = {} THEN 0 ELSE SumWert(cell)

\* the page below load_data with the sidebar selection cat_filter (none
\* selected: no filter); every row of the model has the one
\* Organisationseinheit, so unit_filter selects all rows or is empty
HeatPivot ==
  /\ pc = "loaded"
  /\ \E cat_filter \in SUBSET {r["Kategorie"] : r \in pivot_df} :
       LET df_melt_filt ==
             IF cat_filter # {}
             THEN {r \in df_melt.rows : r["Kategorie"] \in cat_filter}
             ELSE df_melt.rows
       IN  heat_pivot' =
             [kat \in {r["Kategorie"] : r \in df_melt_filt} |->
                [m \in Range(df_melt.categories) |-> heat_cell(df_melt_filt, kat, m)]]
  /\ pc' = "heat_map"
  /\ UNCHANGED <<frame_vars, call_vars, df_melt>>

dashboard2 == LoadData \/ HeatPivot

(***************************************************************************)
(* Inputs                                                                  *)
(***************************************************************************)
MaxRows == 2          \* rows of a sheet
MaxTextLen == 6       \* characters of an argument of extract_number
MaxKurztextLen == 4   \* characters of an argument of find_keyword

\* all texts of at most n characters over the alphabet A
Texts(A, n) == UNION {[1..k -> A] : k \in 0..n}

\* all sheets of 1..n rows
Sheets(Rows, n) == UNION {[1..k -> Rows] : k \in 1..n}

\* rows of one employee and one booking object that differ in three text
\* columns, each blank or holding the word "Unbekannt", in the date
\* (January, February, the unparsable 31.02.) and in the amount
SampleRows ==
  { SheetRow(<<"P", "P">>, <<"U", "1">>, <<"M", "a", "x">>, datum, ktext,
             <<"K", "S", "T">>, <<"4", "7", "1", "1">>, <<"I", "H", "E">>,
             <<"L", "A", "1", "6", "2", "0">>, kst, NaN, lohn,
             anz, <<"2", "0", "0", "4">>)
    : datum \in {<<1, 1>>, <<1, 2>>, <<31, 2>>},
      ktext \in {NaN, Unbekannt},
      kst \in {NaN, Unbekannt},
      lohn \in {NaN, Unbekannt},
      anz \in {<<1>>, <<2>>} }

\* single rows that exercise every rule of the classification
ClassifierRows ==
  { SheetRow(<<"P", "P">>, <<"U", "1">>, <<"M", "a", "x">>, <<1, 1>>, ktext,
             ktyp, empf, kurz, la, NaN, psp, lohn, <<1>>, anab)
    : ktext \in { NaN,
                  <<"P", "P", "-", "U", "H", "R", " ", "I", "C", "T", " ", "B">>,
                  <<"A", " ", "P", "P", "-", "U", "H", "R", " ", "I", "C", "T">>,
                  <<"A", " ", "F", "L", "B", "W", " ", "B">>,
                  <<"R", "e", "i", "s", "e">> },
      ktyp \in {NaN, <<"P", "S", "P", "-", "E", "l">>, <<"K", "S", "T">>},
      empf \in { NaN,
                 <<"1", "7", "0", "2", "3", "2", "8", "6", "2">>,
                 <<"1", "7", "0", "3", "2", "0", "3", "8", "0">>,
                 <<"A", "1", "2", "3", "4", "5", "6", "7", "8", "9">> },
      kurz \in {NaN, <<"a", "b", "w", " ", "F">>, <<"x", " ", "A", "B", "W">>},
      la \in {NaN, <<"L", "A", "1", "6", "2", "0">>, <<"L", "A", "9", "9", "9", "9">>},
      psp \in {NaN, <<"P", ".", "1">>},
      lohn \in {NaN, <<" ", " ">>, <<"Z", "u", "l">>},
      anab \in {NaN, <<"0", "1", "0", "0">>, <<"8", "7", "6", "F">>, <<"2", "0", "0", "4">>} }

\* single rows whose Text AnAbArt runs over all short texts of an alphabet
StatusAlphabet == {"2", "0", "A", " "}
MaxAnAbLen == 5

StatusRows ==
  { SheetRow(<<"P", "P">>, <<"U", "1">>, <<"M", "a", "x">>, <<1, 1>>, <<"R", "e", "i", "s", "e">>,
             <<"K", "S", "T">>, <<"4", "7", "1", "1">>, <<"I", "H", "E">>,
             <<"L", "A", "1", "6", "2", "0">>, NaN, NaN, lohn, <<1>>, anab)
    : lohn \in {NaN, <<>>, <<" ">>, <<"Z">>},
      anab \in Texts(StatusAlphabet, MaxAnAbLen) }

\* single rows with every code of abwesenheitsarten, a Leistungsart of
\* arbeitszeit_leistungsarten and no wage type
CodeRows ==
  { SheetRow(<<"P", "P">>, <<"U", "1">>, <<"M", "a", "x">>, <<1, 1>>, NaN,
             <<"K", "S", "T">>, <<"4", "7", "1", "1">>, <<"I", "H", "E">>,
             <<"L", "A", "1", "6", "2", "0">>, NaN, NaN, lohn, <<1>>, e[1])
    : lohn \in {NaN, <<" ">>},
      e \in abwesenheitsarten }

NumberAlphabet == {"1", "2", "-"}
KurztextAlphabet == {"a", "b", "w", "n", "B", "W", " "}

\* the rows of a year: row m is dated in month m; the rows of the even
\* months may differ from the others in EmpfKostenstelle (a second row of
\* the same Kategorie) or in Lohnart-Langtext (a second Kategorie)
YearRow(m, anz, kst, lohn) ==
  SheetRow(<<"P", "P">>, <<"U", "1">>, <<"M", "a", "x">>, <<1, m>>, Unbekannt,
           <<"K", "S", "T">>, <<"4", "7", "1", "1">>, <<"I", "H", "E">>,
           <<"L", "A", "1", "6", "2", "0">>, kst, NaN, lohn,
           anz, <<"2", "0", "0", "4">>)

MaxDoubled == 2       \* rows of a year sheet that carry Anzahl 2

\* sheets with one row for each of the first n months, n the whole year or
\* the year without its last month; Anzahl is 1, and 2 in up to MaxDoubled
\* rows
YearSheets ==
  UNION { { [m \in 1..n |->
               YearRow(m, IF m \in doubled THEN <<2>> ELSE <<1>>,
                       IF split = "kst" /\ m % 2 = 0 THEN <<"2">> ELSE <<"1">>,
                       IF split = "lohn" /\ m % 2 = 0 THEN <<"Z", "u", "l">> ELSE NaN)]
            : doubled \in {d \in SUBSET (1..n) : Cardinality(d) <= MaxDoubled},
              split \in {"none", "kst", "lohn"} }
          : n \in {Len(month_names) - 1, Len(month_names)} }

NoCall == text = <<>> /\ num_digits = 0 /\ result = <<>>
NoFrame == sheet = <<>> /\ df = <<>> /\ pivot_df = {} /\ columns = <<>>
NoDash == df_melt = <<>> /\ heat_pivot = <<>>

\* a sheet of up to MaxRows sample rows is handed to transform_data
Init ==
  /\ sheet \in Sheets(SampleRows, MaxRows)
  /\ df = <<>> /\ pivot_df = {} /\ columns = <<>>
  /\ pc = "read_excel"
  /\ NoCall /\ NoDash

\* a sheet of one row is handed to transform_data
InitRow ==
  /\ sheet \in Sheets(ClassifierRows \cup StatusRows \cup CodeRows, 1)
  /\ df = <<>> /\ pivot_df = {} /\ columns = <<>>
  /\ pc = "read_excel"
  /\ NoCall /\ NoDash

\* the sheet of a year is handed to transform_data and the returned table
\* is given to the dashboard page
InitYear ==
  /\ sheet \in YearSheets
  /\ df = <<>> /\ pivot_df = {} /\ columns = <<>>
  /\ pc = "read_excel"
  /\ NoCall /\ NoDash

InitExtract ==
  /\ NoFrame
  /\ text \in Texts(NumberAlphabet, MaxTextLen) \cup {NaN}
  /\ num_digits \in {2, 3}
  /\ result = <<>>
  /\ NoDash
  /\ pc = "call_extract_number"

InitKeyword ==
  /\ NoFrame
  /\ text \in Texts(KurztextAlphabet, MaxKurztextLen) \cup {NaN}
  /\ num_digits = 0
  /\ result = <<>>
  /\ NoDash
  /\ pc = "call_find_keyword"

Next == transform_data

Spec == Init /\ [][Next]_vars
SpecRow == InitRow /\ [][Next]_vars
SpecYear == InitYear /\ [][transform_data \/ dashboard2]_vars
SpecExtract == InitExtract /\ [][ExtractNumberCall]_vars
SpecKeyword == InitKeyword /\ [][FindKeywordCall]_vars

(***************************************************************************)
(* Properties of the classification and of the status                      *)
(***************************************************************************)
Categories == {ICT, FLBW, PSP, Anwesenheit, Arbeitsleistung, Abwesenheit, Anderes}

\* the statements up to and including the assignment of Kategorie have run
Classified == pc \in {"unterkategorie", "unterkategorie_name", "raised", "status",
                      "fillna", "pivot", "ytd", "done"}

\* the overwrite of Text AnAbArt by the status has run
StatusResolved == pc \in {"fillna", "pivot", "ytd", "done"}

\* C1: once Kategorie is assigned, every row of the frame, whatever cells of
\* the sheet row are blank, holds one value in Kategorie and that value is
\* one of ICT, FLBW, PSP, Anwesenheit, Arbeitsleistung, Abwesenheit, Anderes.
C1_KategorieTotal ==
  Classified =>
    /\ Len(df) = Len(sheet)
    /\ \A k \in 1..Len(df) : df[k]["Kategorie"] \in Categories

\* a row whose six classification inputs are all blank has been classified
C1_Witness ==
  /\ pc = "unterkategorie"
  /\ \E k \in 1..Len(df) :
       /\ \A c \in {"Kontierungstext", "Allgemeiner Empfänger", "Kontierung (Empf.)",
                    "Lohnart-Langtext", "Leistungsart", "Text AnAbArt"} :
            sheet[k][c] = NaN
       /\ df[k]["Kategorie"] = Anderes

\* the predicates of the classification rules as stated on the cells of a
\* sheet row; a blank cell has no prefix, no substring and is in no set
HasPrefix(v, p) == v # NaN /\ Len(v) >= Len(p) /\ \A k \in 1..Len(p) : v[k] = p[k]
HasPart(v, p) ==
  v # NaN /\ \E o \in 0..(Len(v) - Len(p)) : \A k \in 1..Len(p) : v[o + k] = p[k]
NonBlank(v) == v # NaN /\ \E k \in 1..Len(v) : v[k] \notin Whitespace
CodeWithFlag(v, flag) == \E e \in abwesenheitsarten : e[1] = v /\ e[3] = flag

RuleHolds(n, s) ==
  CASE n = 1 -> \/ HasPrefix(s["Kontierungstext"], PP_UHR_ICT)
                \/ s["Allgemeiner Empfänger"] \in ict_order_numbers
    [] n = 2 -> \/ HasPart(s["Kontierungstext"], FLBW)
                \/ s["Allgemeiner Empfänger"] \in flbw_order_numbers
    [] n = 3 -> HasPart(s["Kontierung (Empf.)"], PSP)
    [] n = 4 -> NonBlank(s["Lohnart-Langtext"])
    [] n = 5 -> /\ s["Leistungsart"] \in arbeitszeit_leistungsarten
                /\ CodeWithFlag(s["Text AnAbArt"], 1)
    [] n = 6 -> /\ s["Leistungsart"] \in arbeitszeit_leistungsarten
                /\ CodeWithFlag(s["Text AnAbArt"], 0)
    [] n = 7 -> TRUE

RuleOrder == <<ICT, FLBW, PSP, Anwesenheit, Arbeitsleistung, Abwesenheit, Anderes>>

IsArbeitCode(v) ==
  /\ v # NaN
  /\ \E o \in 0..(Len(v) - 4) :
       /\ \A k \in 1..o : v[k] \in Whitespace
       /\ v[o + 1] = "2"
       /\ \A k \in (o + 2)..(o + 4) : v[k] \in Digits
       /\ \A k \in (o + 5)..Len(v) : v[k] \in Whitespace

\* C5: Text AnAbArt ends as "Arbeit Unproduktiv" if Lohnart-Langtext is
\* present and not blank, else as "Arbeit" if the trimmed Text AnAbArt of the
\* sheet is 2 followed by three digits, else as "Abwesend".
C5_StatusResolved ==
  StatusResolved =>
    \A k \in 1..Len(df) :
      df[k]["Text AnAbArt"] =
        IF NonBlank(sheet[k]["Lohnart-Langtext"]) THEN ArbeitUnproduktiv
        ELSE IF IsArbeitCode(sheet[k]["Text AnAbArt"]) THEN Arbeit
        ELSE Abwesend

\* a work code padded with whitespace, without a wage type, resolved to Arbeit
C5_Witness ==
  /\ pc = "fillna"
  /\ \E k \in 1..Len(df) :
       /\ ~NonBlank(sheet[k]["Lohnart-Langtext"])
       /\ sheet[k]["Text AnAbArt"] = <<" ", "2", "0", "0", "0">>
       /\ df[k]["Text AnAbArt"] = Arbeit

(***************************************************************************)
(* Properties of extract_number and find_keyword                           *)
(***************************************************************************)
\* positions a..b of v hold a maximal run of digits
IsRun(v, a, b) ==
  /\ 1 <= a /\ a <= b /\ b <= Len(v)
  /\ \A k \in a..b : v[k] \in Digits
  /\ a = 1 \/ v[a - 1] \notin Digits
  /\ b = Len(v) \/ v[b + 1] \notin Digits

\* the maximal digit runs of a text, as pairs <<first, last>>; none in a blank
Runs(v) ==
  IF v = NaN THEN {}
  ELSE {r \in (1..Len(v)) \X (1..Len(v)) : IsRun(v, r[1], r[2])}

RunLen(r) == r[2] - r[1] + 1
FirstRun(R) == CHOOSE r \in R : \A q \in R : r[1] <= q[1]
\* the last n characters of the run r of v
Trailing(v, r, n) == SubSeq(v, r[2] - n + 1, r[2])

\* the statement of the claim as written: an exact run anywhere in the text
\* is preferred to an earlier longer run
ExactFirst(v, n) ==
  LET exact == {r \in Runs(v) : RunLen(r) = n}
      longer == {r \in Runs(v) : RunLen(r) > n}
  IN  IF exact # {} THEN Trailing(v, FirstRun(exact), n)
      ELSE IF longer # {} THEN Trailing(v, FirstRun(longer), n)
      ELSE UnbekannteKontierungsnummer

\* C3 as stated: the first run of exactly n digits is returned even if a
\* longer run appears earlier; refuted by extract_number("111-12", 2) = "11".
C3_ExactRunPreferred ==
  pc = "extract_number_returned" => result = ExactFirst(text, num_digits)

\* C3 amended: extract_number returns the last n digits of the first run of
\* at least n digits (the run itself when it has exactly n), and the
\* sentinel when no run has n digits or more.
C3_FirstLongEnoughRun ==
  pc = "extract_number_returned" =>
    LET enough == {r \in Runs(text) : RunLen(r) >= num_digits}
    IN  result = IF enough # {} THEN Trailing(text, FirstRun(enough), num_digits)
                 ELSE UnbekannteKontierungsnummer

\* a longer run precedes a run of exactly n digits; the longer one was cut
C3_Witness ==
  /\ pc = "extract_number_returned"
  /\ \E r \in Runs(text), q \in Runs(text) :
       /\ RunLen(r) > num_digits /\ RunLen(q) = num_digits /\ r[1] < q[1]
       /\ \A o \in Runs(text) : r[1] <= o[1]
       /\ result = Trailing(text, r, num_digits)
       /\ result # SubSeq(text, q[1], q[2])

IsPrefixOf(kw, v) == Len(v) >= Len(kw) /\ \A k \in 1..Len(kw) : v[k] = kw[k]

\* C4: find_keyword returns the keyword of lowest list position that is a
\* prefix of the upper-cased, trimmed text, and "XXX" when there is none:
\* a keyword found only further right in the text does not count.
C4_FirstPrefixKeyword ==
  pc = "find_keyword_returned" =>
    LET u == strip(upper(str(text)))
        hits == {k \in 1..Len(possible_keywords) : IsPrefixOf(possible_keywords[k], u)}
    IN  result = IF hits = {} THEN XXX ELSE possible_keywords[Min(hits)]

\* a lower-case text with leading whitespace matched its keyword
C4_Witness ==
  /\ pc = "find_keyword_returned"
  /\ text = <<" ", "a", "b", "w">>
  /\ result = <<"A", "B", "W">>

(***************************************************************************)
(* Properties of the aggregation                                           *)
(***************************************************************************)
Returned == pc = "done"

\* the month columns a row of the result carries
MonthColumns(row) == DOMAIN row \cap Range(month_names)

RECURSIVE SumOver(_, _)
SumOver(row, cols) ==
  IF cols = {} THEN 0
  ELSE LET c == CHOOSE x \in cols : TRUE IN row[c] + SumOver(row, cols \ {c})

\* the rows of the frame that carry the index tuple ix
Group(ix) == {k \in 1..Len(df) : IndexOf(df[k]) = ix}

\* C6: in every row of the returned table ytd is the sum of the values of
\* the month columns of that row.
C6_YtdIsSumOfMonths ==
  Returned =>
    \A row \in pivot_df :
      /\ MonthColumns(row) = Range(columns) \cap Range(month_names)
      /\ row["ytd"] = SumOver(row, MonthColumns(row))

\* a row with two month columns, both not 0
C6_Witness ==
  /\ Returned
  /\ \E row \in pivot_df :
       /\ Cardinality(MonthColumns(row)) = 2
       /\ \A c \in MonthColumns(row) : row[c] > 0
       /\ row["ytd"] = SumOver(row, MonthColumns(row))

\* C7 as stated: ytd of a row is the sum of Betrag over all rows of its
\* group, those without a parsable date included; refuted by a group with
\* one row dated 01.01. and one dated 31.02.
C7_YtdIsSumOfGroup ==
  Returned =>
    \A row \in pivot_df : row["ytd"] = SumBetrag(df, Group(IndexOf(row)))

\* C8 as stated: the index tuples of the result are exactly the tuples of
\* the frame, one row each; refuted by a group whose rows all lack a date.
C8_OneRowPerGroup ==
  Returned =>
    /\ {IndexOf(row) : row \in pivot_df} = {IndexOf(df[k]) : k \in 1..Len(df)}
    /\ \A r1 \in pivot_df, r2 \in pivot_df : IndexOf(r1) = IndexOf(r2) => r1 = r2

\* sheet rows i and j are equal in every column but c, blank in c in row i
\* and "Unbekannt" in c in row j
NullAndUnbekannt(i, j, c) ==
  /\ sheet[i][c] = NaN
  /\ sheet[j][c] = Unbekannt
  /\ \A o \in DOMAIN sheet[i] \ {c} : sheet[i][o] = sheet[j][o]

KeyColumns ==
  {"OE", "Personalnummer", "Name des Mitarbeiters bzw. Bewerbers", "Kontierungstext",
   "Kontierung (Empf.)", "Allgemeiner Empfänger", "Kurztext", "Leistungsart",
   "EmpfKostenstelle", "Empfänger-PSP-Element", "Lohnart-Langtext"}

\* C10 as stated: whatever key column holds the blank and the "Unbekannt",
\* the two rows carry the same index tuple; refuted by Kontierungstext
\* (Unterkategorie "nan" against "Unbekannt") and by Lohnart-Langtext.
C10_NullNeverDistinct ==
  Returned =>
    \A c \in KeyColumns : \A i \in 1..Len(sheet), j \in 1..Len(sheet) :
      NullAndUnbekannt(i, j, c) => IndexOf(df[i]) = IndexOf(df[j])

\* ---------------------------------------------------------------------
\* C11  A row with a blank grouping-key cell never makes transform_data
\*      fail: in particular a row of Kategorie "PSP" whose
\*      Projektdefinition is blank still gets its Unterkategorie Name and
\*      its status, and the call goes on to return its table.  Stated as:
\*      no run ends in the TypeError of line 203.
C11_NullKeyNeverFails ==
    \A k \in 1..Len(sheet) :
        (\E c \in DOMAIN sheet[k] : isna(sheet[k][c])) => pc # "raised"

\* ---------------------------------------------------------------------
\* the derivations C12 names, restated on the cells of the sheet
NumberOf(v, n) ==
  LET enough == {r \in Runs(v) : RunLen(r) >= n}
  IN  IF enough # {} THEN Trailing(v, FirstRun(enough), n)
      ELSE UnbekannteKontierungsnummer

KeywordOf(v) ==
  LET u == strip(upper(str(v)))
      hits == {k \in 1..Len(possible_keywords) : IsPrefixOf(possible_keywords[k], u)}
  IN  IF hits = {} THEN XXX ELSE possible_keywords[Min(hits)]

\* a blank cell is shown as "Unbekannt" in the grouping columns
Shown(v) == IF v = NaN THEN Unbekannt ELSE v

SubcategoryOf(kat, row) ==
  CASE kat = ICT -> NumberOf(row["Allgemeiner Empfänger"], 8)
    [] kat = FLBW -> KeywordOf(row["Kurztext"])
    [] kat = PSP -> NumberOf(row["Allgemeiner Empfänger"], 7)
    [] kat \in {Anwesenheit, Arbeitsleistung, Abwesenheit} -> row["Kontierungstext"]
    [] OTHER -> <<>>

UnterkategorieAssigned ==
  pc \in {"unterkategorie_name", "raised", "status", "fillna", "pivot", "ytd", "done"}
UnterkategorieNameAssigned == pc \in {"status", "fillna", "pivot", "ytd", "done"}

\* C12: Unterkategorie is a function of Kategorie: ICT gives
\*      extract_number(Kontierungsnummer, 8), FLBW gives
\*      find_keyword(Leistung Kurztext), PSP gives
\*      extract_number(Kontierungsnummer, 7), Anwesenheit, Arbeitsleistung
\*      and Abwesenheit give the Kontierungsbeschreibung value, Anderes the
\*      empty text; Unterkategorie Name equals Unterkategorie except for
\*      PSP, where it is Unterkategorie, a blank and Projektdefinition.
C12_SubcategoryByCategory ==
  \A k \in 1..Len(sheet) :
     /\ UnterkategorieAssigned =>
          Shown(df[k]["Unterkategorie"]) = Shown(SubcategoryOf(df[k]["Kategorie"], sheet[k]))
     /\ UnterkategorieNameAssigned =>
          df[k]["Unterkategorie Name"] =
             IF df[k]["Kategorie"] = PSP
             THEN df[k]["Unterkategorie"] \o <<" ">> \o Shown(sheet[k]["Empfänger-PSP-Element"])
             ELSE df[k]["Unterkategorie"]

\* ---------------------------------------------------------------------
\* the months in which at least one row of the frame has a parsable date
PresentMonths == {m \in 1..Len(month_names) : \E k \in 1..Len(df) : df[k]["Monat"] = <<m>>}

\* the position of a label in the calendar
CalendarPos(label) == CHOOSE m \in 1..Len(month_names) : month_names[m] = label

\* C13: every emitted month column of a row holds the sum of Betrag over
\*      the rows of the row's group dated in that month, and 0 when the
\*      group has none; the emitted month columns are exactly the months
\*      in which some row of the input has a parsable date, and they stand
\*      in calendar order after the grouping columns and before ytd.
C13_MonthColumns ==
  Returned =>
    LET n == Len(static_cols)
        last == Len(columns)
    IN  /\ last > n
        /\ SubSeq(columns, 1, n) = static_cols
        /\ columns[last] = "ytd"
        /\ {columns[i] : i \in (n + 1)..(last - 1)} = {month_names[m] : m \in PresentMonths}
        /\ \A i \in (n + 1)..(last - 1), j \in (n + 1)..(last - 1) :
              i < j => CalendarPos(columns[i]) < CalendarPos(columns[j])
        /\ \A row \in pivot_df :
              /\ DOMAIN row = Range(columns)
              /\ \A m \in PresentMonths :
                    row[month_names[m]] =
                      SumBetrag(df, {k \in Group(IndexOf(row)) : df[k]["Monat"] = <<m>>})

\* two months were emitted; a row has 0 in a month in which its group has
\* no row, while another group has one
C13_Witness ==
  /\ Returned
  /\ Cardinality(PresentMonths) = 2
  /\ \E row \in pivot_df, other \in pivot_df, m \in PresentMonths :
       /\ row[month_names[m]] = 0
       /\ other[month_names[m]] > 0
       /\ \A k \in Group(IndexOf(row)) : df[k]["Monat"] # <<m>>

(***************************************************************************)
(* Properties of the long form                                             *)
(***************************************************************************)
Melted == pc \in {"loaded", "heat_map"}

\* the long rows that carry the grouping columns of a row of the table
LongRowsOf(row) ==
  {r \in df_melt.rows : \A c \in Range(static_cols) : r[c] = row[c]}

\* one long row per row of the table and calendar month, with the value of
\* that month column; Monat is ordered as the calendar is
LongForm ==
  /\ \A row \in pivot_df, m \in 1..Len(month_names) :
        \E r \in LongRowsOf(row) :
           /\ r["Monat"] = month_names[m]
           /\ r["Wert"] = row[month_names[m]]
           /\ \A q \in LongRowsOf(row) : q["Monat"] = month_names[m] => q = r
  /\ Cardinality(df_melt.rows) = Len(month_names) * Cardinality(pivot_df)
  /\ \A r \in df_melt.rows :
        DOMAIN r = Range(static_cols) \cup {"Monat", "Wert"}
  /\ df_melt.ordered
  /\ df_melt.categories = month_names

\* C14 as stated: load_data, given a table transform_data returned, emits
\*      exactly one long row for every row of the table and each of the 12
\*      months, carrying the grouping columns, the month and the value,
\*      with Monat ordered by calendar position; refuted by any table of a
\*      year in which some month has no dated row.
C14_OneLongRowPerMonth ==
  /\ pc # "key_error"
  /\ Melted => LongForm

\* C14 amended: given a table with all 12 month columns load_data emits
\*      the long form above; given a table that lacks a month column it
\*      raises KeyError and emits no long row.
C14_LongFormOfWholeYear ==
  /\ pc = "key_error" => PresentMonths # 1..Len(month_names) /\ df_melt = <<>>
  /\ Melted => PresentMonths = 1..Len(month_names) /\ LongForm

\* a table of two rows was melted into 24 long rows, with values 0 and 2
C14_Witness ==
  /\ pc = "loaded"
  /\ Cardinality(pivot_df) = 2
  /\ Cardinality(df_melt.rows) = 24
  /\ \E r \in df_melt.rows, q \in df_melt.rows :
       /\ r["Monat"] = "Februar" /\ r["Wert"] = 0
       /\ q["Monat"] = "Januar" /\ q["Wert"] = 2
       /\ \A c \in Range(static_cols) : r[c] = q[c]

\* ---------------------------------------------------------------------
\* the rows of the table of one Kategorie
WideRowsOf(kat) == {row \in pivot_df : row["Kategorie"] = kat}

RECURSIVE ColumnSum(_, _)
ColumnSum(rows, label) ==
  IF rows = {} THEN 0
  ELSE LET r == CHOOSE x \in rows : TRUE IN r[label] + ColumnSum(rows \ {r}, label)

\* C15 as stated: for any row of the table, also of a table that lacks
\*      some of the 12 month columns, melting and pivoting back on Monat
\*      gives every present month column its value again and 0 for the
\*      absent months (read for a row that is the only one of its
\*      Kategorie, the index of the pivot); refuted by any table that
\*      lacks a month column.
C15_MeltPivotRoundTrip ==
  /\ pc # "key_error"
  /\ pc = "heat_map" =>
       \A kat \in DOMAIN heat_pivot : \A row \in WideRowsOf(kat) :
          WideRowsOf(kat) = {row} =>
             \A m \in 1..Len(month_names) :
                heat_pivot[kat][month_names[m]] =
                   IF month_names[m] \in DOMAIN row THEN row[month_names[m]] ELSE 0

\* C15 amended: for a table with all 12 month columns, melting and
\*      pivoting back on Monat gives, for every Kategorie shown and every
\*      month, the sum of the month column over the rows of the Kategorie,
\*      so a row that is the only one of its Kategorie gets the value of
\*      every month column again; for a table that lacks a month column
\*      the melt raises KeyError and nothing is pivoted.
C15_RoundTripOfWholeYear ==
  /\ pc = "key_error" =>
        /\ \E m \in 1..Len(month_names) : month_names[m] \notin Range(columns)
        /\ heat_pivot = <<>>
  /\ pc = "heat_map" =>
        /\ \A m \in 1..Len(month_names) : month_names[m] \in Range(columns)
        /\ DOMAIN heat_pivot # {}
        /\ \A kat \in DOMAIN heat_pivot :
              /\ WideRowsOf(kat) # {}
              /\ DOMAIN heat_pivot[kat] = Range(month_names)
              /\ \A m \in 1..Len(month_names) :
                    heat_pivot[kat][month_names[m]] =
                       ColumnSum(WideRowsOf(kat), month_names[m])

\* a row that is the only one of its Kategorie got its 2 of Januar and
\* its 0 of Februar again
C15_Witness ==
  /\ pc = "heat_map"
  /\ \E kat \in DOMAIN heat_pivot : \E row \in WideRowsOf(kat) :
       /\ WideRowsOf(kat) = {row}
       /\ Cardinality(pivot_df) = 2
       /\ row["Januar"] = 2 /\ heat_pivot[kat]["Januar"] = 2
       /\ row["Februar"] = 0 /\ heat_pivot[kat]["Februar"] = 0

\* ---------------------------------------------------------------------
Statuses == {Arbeit, ArbeitUnproduktiv, Abwesend}

\* the category the rules give the sheet row s, its Text AnAbArt as exported
CategoryOfSheetRow(s) ==
  RuleOrder[Min({n \in 1..Len(RuleOrder) : RuleHolds(n, s)})]

\* C16: Kategorie (and with it Unterkategorie) is computed from the Text
\*      AnAbArt of the export; in every run the status is written over
\*      Text AnAbArt only after that, so Kategorie never depends on the
\*      status; in the returned table Text AnAbArt of every row holds a
\*      status.  As a property of every step: a step that changes Text
\*      AnAbArt of a row finds the export's text there, finds Kategorie
\*      and Unterkategorie already derived from it, leaves them alone and
\*      writes a status; and no later step changes them.
C16_ClassifiedBeforeOverwrite ==
  [][ /\ \A k \in 1..Len(df) :
           /\ (Len(df') = Len(df) /\ df'[k]["Text AnAbArt"] # df[k]["Text AnAbArt"]) =>
                 /\ df[k]["Text AnAbArt"] = sheet[k]["Text AnAbArt"]
                 /\ UnterkategorieAssigned
                 /\ df[k]["Kategorie"] = CategoryOfSheetRow(sheet[k])
                 /\ df'[k]["Kategorie"] = df[k]["Kategorie"]
                 /\ df'[k]["Unterkategorie"] = df[k]["Unterkategorie"]
                 /\ df'[k]["Text AnAbArt"] \in Statuses
           /\ (Len(df') = Len(df) /\ StatusResolved) =>
                 /\ df'[k]["Kategorie"] = CategoryOfSheetRow(sheet[k])
                 /\ df'[k]["Text AnAbArt"] = df[k]["Text AnAbArt"]
      /\ pc' = "done" => \A row \in pivot_df' : row["Text AnAbArt"] \in Statuses
    ]_vars

\* a row is Arbeitsleistung by the code 0100 of the export, and its Text
\* AnAbArt, now the status Abwesend, is no code of the table any more
C16_Witness ==
  /\ Returned
  /\ sheet[1]["Text AnAbArt"] = <<"0", "1", "0", "0">>
  /\ \E row \in pivot_df :
       /\ row["Kategorie"] = Arbeitsleistung
       /\ row["Text AnAbArt"] = Abwesend
       /\ ~CodeWithFlag(row["Text AnAbArt"], 1)

\* ---------------------------------------------------------------------
\* C17: every row of Kategorie "Arbeitsleistung" or "Abwesenheit" has the
\*      status "Abwesend", never "Arbeit" or "Arbeit Unproduktiv": such a
\*      row has a blank Lohnart-Langtext, and no code of abwesenheitsarten
\*      is 2 followed by three digits.
C17_AttendanceIsAbwesend ==
  StatusResolved =>
    \A k \in 1..Len(df) :
      df[k]["Kategorie"] \in {Arbeitsleistung, Abwesenheit} =>
        /\ df[k]["Text AnAbArt"] = Abwesend
        /\ ~NonBlank(sheet[k]["Lohnart-Langtext"])
        /\ ~IsArbeitCode(sheet[k]["Text AnAbArt"])

\* a row with a code of four digits and a Lohnart-Langtext of blanks is
\* Arbeitsleistung and Abwesend
C17_Witness ==
  /\ StatusResolved
  /\ \E k \in 1..Len(df) :
       /\ df[k]["Kategorie"] = Arbeitsleistung
       /\ Len(sheet[k]["Text AnAbArt"]) = 4
       /\ \A i \in 1..4 : sheet[k]["Text AnAbArt"][i] \in Digits
       /\ sheet[k]["Lohnart-Langtext"] = <<" ">>
       /\ df[k]["Text AnAbArt"] = Abwesend

\* ---------------------------------------------------------------------
\* C18: no keyword of the list of find_keyword is a prefix of another one,
\*      so at most one keyword is a prefix of any text and find_keyword
\*      returns the same keyword whatever the order of the list: the one
\*      keyword that matches, which is the first and the last match alike.
C18_KeywordsPrefixFree ==
  /\ \A i \in 1..Len(possible_keywords), j \in 1..Len(possible_keywords) :
        i # j => ~IsPrefixOf(possible_keywords[i], possible_keywords[j])
  /\ pc = "find_keyword_returned" =>
       LET u == strip(upper(str(text)))
           hits == {k \in 1..Len(possible_keywords) : IsPrefixOf(possible_keywords[k], u)}
       IN  /\ Cardinality(hits) <= 1
           /\ hits # {} => result = possible_keywords[Max(hits)]
           /\ \A k \in hits : result = possible_keywords[k]
           /\ hits = {} => result = XXX

\* a text longer than its keyword matched that keyword and no other
C18_Witness ==
  /\ pc = "find_keyword_returned"
  /\ text = <<"a", "b", "w", "n">>
  /\ result = <<"A", "B", "W">>
  /\ Cardinality({k \in 1..Len(possible_keywords) :
                    IsPrefixOf(possible_keywords[k], strip(upper(str(text))))}) = 1

====
